---- MODULE Spec2Model ----
(***************************************************************************)
(* A model of process_data.py: main() loads the first sheet of the exit    *)
(* survey workbook, labels the eight rating columns, cleans and aggregates *)
(* them, ranks the courses and writes a CSV and a bar chart.               *)
(*                                                                         *)
(* Text is a tuple of one-character strings ("Q - A" is                    *)
(* <<"Q"," ","-"," ","A">>), so that str.split can be computed.            *)
(* A float is a record [nan, num, den]: the exact quotient num/den, or     *)
(* NaN; comparisons follow IEEE 754 (NaN is neither below nor equal to     *)
(* anything, itself included).  The rounding of a quotient to 53 bits is   *)
(* not modelled.                                                           *)
(***************************************************************************)
EXTENDS Integers, Sequences, FiniteSets, TLC

VARIABLES
    pc,             \* position of main()
    fileExists,     \* whether the workbook is on disk
    sheet,          \* physical rows of the first sheet
    fs,             \* the output side of the file system
    handles,        \* file handles main() has opened and not released
    out,            \* what was printed
    df,             \* the parsed frame: column labels and body rows
    course_names,   \* line 27
    data,           \* the selected rows, each with its index label
    initial_count,  \* line 49
    final_count,    \* line 51
    stats           \* the ranking table

vars == <<pc, fileExists, sheet, fs, handles, out, df, course_names, data,
          initial_count, final_count, stats>>

(***************************************************************************)
(* Bounds of the model and constants of the program.                       *)
(***************************************************************************)
MaxDataRows == 2
MaxHeaderLen == 7
ExtraCols == 1
HeaderRow == 1
FirstCol == 11
StopCol == 19
SkipRows == 1

(***************************************************************************)
(* Floats.                                                                 *)
(***************************************************************************)
NaN == [nan |-> TRUE, num |-> 0, den |-> 1]
Float(n) == [nan |-> FALSE, num |-> n, den |-> 1]
IsNaN(a) == a.nan
FLt(a, b) == ~a.nan /\ ~b.nan /\ a.num * b.den < b.num * a.den
FEq(a, b) == ~a.nan /\ ~b.nan /\ a.num * b.den = b.num * a.den
FAdd(a, b) ==
    IF a.nan \/ b.nan THEN NaN
    ELSE [nan |-> FALSE, num |-> a.num * b.den + b.num * a.den, den |-> a.den * b.den]
FDivInt(a, n) ==
    IF a.nan \/ n = 0 THEN NaN ELSE [nan |-> FALSE, num |-> a.num, den |-> a.den * n]

(***************************************************************************)
(* Text: str.__contains__ and str.split with the separator " - ".          *)
(***************************************************************************)
Separator == <<" ", "-", " ">>

OccursAt(s, j) ==
    /\ j >= 1
    /\ j + Len(Separator) - 1 <= Len(s)
    /\ SubSeq(s, j, j + Len(Separator) - 1) = Separator

Contains(s) == \E j \in 1..Len(s) : OccursAt(s, j)

\* str.find: the lowest index at which the separator occurs, 0 when none.
Find(s) ==
    IF Contains(s)
    THEN CHOOSE j \in 1..Len(s) : OccursAt(s, j) /\ \A k \in 1..(j - 1) : ~OccursAt(s, k)
    ELSE 0

\* str.split(" - "): cut at the first occurrence, go on after it.
RECURSIVE Split(_)
Split(s) ==
    LET at == Find(s) IN
    IF at = 0 THEN <<s>>
    ELSE <<SubSeq(s, 1, at - 1)>> \o Split(SubSeq(s, at + Len(Separator), Len(s)))

Last(q) == q[Len(q)]

\* split(" - ")[0] in place of [-1]
CourseNameFirstSegment(col) == IF Contains(col) THEN Split(col)[1] ELSE col

\* lines 29-32
CourseName(col) == IF Contains(col) THEN Last(Split(col)) ELSE col

(***************************************************************************)
(* Cells of the sheet and pd.to_numeric(errors='coerce').                  *)
(***************************************************************************)
Num(v) == [kind |-> "num", val |-> v]
NumText(v) == [kind |-> "numtext", val |-> v]
Text == [kind |-> "text", val |-> 0]
Empty == [kind |-> "empty", val |-> 0]

\* line 47, per cell: numbers and numeric text parse, anything else is NaN
ToNumeric(cell) == IF cell.kind \in {"num", "numtext"} THEN Float(cell.val) ELSE NaN

(***************************************************************************)
(* The sheets the model reads.  Column position p (0-based, as in the      *)
(* program) is element p + 1 of a row.                                     *)
(***************************************************************************)
NumCols == StopCol + ExtraCols
Selected == FirstCol..(StopCol - 1)

Letters == <<"a", "b", "c", "d", "e", "f", "g", "h", "i", "j", "k", "l", "m",
             "n", "o", "p", "r", "s", "t", "u", "v", "w", "x", "y", "z">>
Names == <<"A", "B", "C", "D", "E", "F", "G", "H">>

CodeOf(p) == <<"Q", Letters[p + 1]>>
Prefixed(p, name) == <<"q", Letters[p + 1], " ", "-", " ", name>>
TwoSeparators(p, name) == <<"q", Letters[p + 1], " ", "-", " ", "x", " ", "-", " ", name>>
Bare(name) == <<name>>

HeaderStyles == {"prefixed", "mixed", "duplicate"}

\* The question text of column p under a style; labels of one sheet are
\* pairwise distinct, as the labels of a parsed frame are.
HeaderOf(style, p) ==
    IF p \notin Selected THEN <<"#", Letters[p + 1]>>
    ELSE LET k == p - FirstCol + 1 IN
         CASE style = "prefixed" -> Prefixed(p, Names[k])
           [] style = "mixed" ->
                IF k = 3 THEN TwoSeparators(p, Names[k])
                ELSE IF k % 2 = 0 THEN Bare(Names[k]) ELSE Prefixed(p, Names[k])
           [] OTHER -> Prefixed(p, Names[IF k = 5 THEN 2 ELSE k])

RatingValues == {1, 2}
SpecialCols == {FirstCol + 1, StopCol - 2}
SpecialCells == {NumText(3), Text, Empty}

PoolRow(v, c, x) ==
    [i \in 1..NumCols |->
        IF (i - 1) \in Selected THEN (IF i - 1 = c THEN x ELSE Num(v)) ELSE Text]

\* Rows of ones with at most one two, rows of ones with one cell that is
\* numeric text, text or empty, and rows of twos with at most one one.
DataRowPool ==
    {PoolRow(1, c, Num(v)) : c \in SpecialCols, v \in RatingValues}
        \cup {PoolRow(1, StopCol - 2, x) : x \in SpecialCells}
        \cup {PoolRow(2, FirstCol + 1, Num(v)) : v \in RatingValues}

\* The row under the header: the survey tool's {"ImportId": ...} texts, or
\* (to try the skip) a row of numbers.
MetaRows == {[i \in 1..NumCols |-> Text], [i \in 1..NumCols |-> Num(1)]}

SeqsUpTo(S, n) == UNION {[1..k -> S] : k \in 0..n}

MakeSheet(headers, body) ==
    <<[i \in 1..NumCols |-> CodeOf(i - 1)], headers>> \o body

StyleHeaders(style) == [i \in 1..NumCols |-> HeaderOf(style, i - 1)]

Bodies == {<<>>} \cup {<<m>> \o d : m \in MetaRows, d \in SeqsUpTo(DataRowPool, MaxDataRows)}

Sheets == {MakeSheet(StyleHeaders(style), body) : style \in HeaderStyles, body \in Bodies}

\* Sheets for the labelling rule: one selected header is any text over a
\* small alphabet, the body is fixed.
HeaderAlphabet == {" ", "-", "A"}
HeaderTexts == UNION {[1..k -> HeaderAlphabet] : k \in 1..MaxHeaderLen}
FreeHeaders(h) ==
    [i \in 1..NumCols |-> IF i - 1 = FirstCol THEN h ELSE HeaderOf("duplicate", i - 1)]
LabelSheets ==
    {MakeSheet(FreeHeaders(h),
               <<[i \in 1..NumCols |-> Text], PoolRow(1, FirstCol + 1, Num(2))>>)
        : h \in HeaderTexts}

(***************************************************************************)
(* The output side of the file system.                                     *)
(***************************************************************************)
NoFile == [state |-> "absent", header |-> <<>>, rows |-> <<>>]
OldFile == [state |-> "old", header |-> <<>>, rows |-> <<>>]
FreshFs == [dir |-> FALSE, csv |-> NoFile, png |-> NoFile]
UsedFs == [dir |-> TRUE, csv |-> OldFile, png |-> OldFile]

NoFrame == [columns |-> <<>>, rows |-> <<>>]

InitWith(sheets, disks) ==
    /\ pc = "start"
    /\ fileExists \in BOOLEAN
    /\ sheet \in (IF fileExists THEN sheets ELSE {<<>>})
    /\ fs \in disks
    /\ handles = {}
    /\ out = <<>>
    /\ df = NoFrame
    /\ course_names = <<>>
    /\ data = <<>>
    /\ initial_count = 0
    /\ final_count = 0
    /\ stats = <<>>

Init == InitWith(Sheets, {FreshFs, UsedFs})
InitLabel == InitWith(LabelSheets, {FreshFs})

(***************************************************************************)
(* The steps of main(), in program order.                                  *)
(***************************************************************************)
Msg(tag, a, b) == [msg |-> tag, a |-> a, b |-> b]

\* lines 10-12, the workbook is there: ExcelFile opens it and keeps it open
LoadOk ==
    /\ pc = "start"
    /\ fileExists
    /\ handles' = handles \cup {"xlsx"}
    /\ out' = Append(out, Msg("loading", 0, 0))
    /\ pc' = "loaded"
    /\ UNCHANGED <<fileExists, sheet, fs, df, course_names, data,
                   initial_count, final_count, stats>>

\* the handler with os.makedirs ahead of the return
LoadMissingMakesDir ==
    /\ pc = "start"
    /\ ~fileExists
    /\ out' = out \o <<Msg("loading", 0, 0), Msg("not found", 0, 0)>>
    /\ pc' = "returned"
    /\ fs' = [fs EXCEPT !.dir = TRUE]
    /\ UNCHANGED <<fileExists, sheet, handles, df, course_names, data,
                   initial_count, final_count, stats>>

\* lines 10-15, FileNotFoundError: print and return
LoadMissing ==
    /\ pc = "start"
    /\ ~fileExists
    /\ out' = out \o <<Msg("loading", 0, 0), Msg("not found", 0, 0)>>
    /\ pc' = "returned"
    /\ UNCHANGED <<fileExists, sheet, fs, handles, df, course_names, data,
                   initial_count, final_count, stats>>

\* xl.parse(sheet, header=h): row h labels the columns, the body follows it
ParseSheet(sh, h) == [columns |-> sh[h + 1], rows |-> SubSeq(sh, h + 2, Len(sh))]

\* line 19
Parse ==
    /\ pc = "loaded"
    /\ df' = ParseSheet(sheet, HeaderRow)
    /\ pc' = "parsed"
    /\ UNCHANGED <<fileExists, sheet, fs, handles, out, course_names, data,
                   initial_count, final_count, stats>>

\* list(range(11, 18)): the span one column short
target_cols_indices_short == [i \in 1..(StopCol - FirstCol - 1) |-> FirstCol + i - 1]

\* line 22: list(range(11, 19))
target_cols_indices == [i \in 1..(StopCol - FirstCol) |-> FirstCol + i - 1]

\* line 23: df.columns[target_cols_indices]
TargetCols(frame) == [i \in 1..Len(target_cols_indices) |-> frame.columns[target_cols_indices[i] + 1]]

\* lines 22-34
Label ==
    /\ pc = "parsed"
    /\ course_names' = [i \in 1..Len(TargetCols(df)) |-> CourseName(TargetCols(df)[i])]
    /\ out' = Append(out, Msg("identified", 0, 0))
    /\ pc' = "named"
    /\ UNCHANGED <<fileExists, sheet, fs, handles, df, data,
                   initial_count, final_count, stats>>

\* iloc[0:, cols] in place of iloc[1:, cols]
ILocKeepsRowZero(frame, from, cols) ==
    [r \in 1..Len(frame.rows) |->
        [idx |-> r - 1,
         vals |-> [i \in 1..Len(cols) |-> frame.rows[r][cols[i] + 1]]]]

\* df.iloc[from:, cols]: the rows from position `from` on, each keeping its
\* index label (the frame has a RangeIndex, so label = position)
ILoc(frame, from, cols) ==
    [r \in 1..(IF Len(frame.rows) > from THEN Len(frame.rows) - from ELSE 0) |->
        [idx |-> r + from - 1,
         vals |-> [i \in 1..Len(cols) |-> frame.rows[r + from][cols[i] + 1]]]]

\* lines 40-43
SelectData ==
    /\ pc = "named"
    /\ data' = ILoc(df, SkipRows, target_cols_indices)
    /\ pc' = "selected"
    /\ UNCHANGED <<fileExists, sheet, fs, handles, out, df, course_names,
                   initial_count, final_count, stats>>

\* line 47: data.apply(pd.to_numeric, errors='coerce'), column by column
ApplyToNumeric(rows) ==
    [r \in 1..Len(rows) |->
        [idx |-> rows[r].idx,
         vals |-> [i \in 1..Len(rows[r].vals) |-> ToNumeric(rows[r].vals[i])]]]

Coerce ==
    /\ pc = "selected"
    /\ data' = ApplyToNumeric(data)
    /\ pc' = "coerced"
    /\ UNCHANGED <<fileExists, sheet, fs, handles, out, df, course_names,
                   initial_count, final_count, stats>>

HasNaN(row) == \E i \in 1..Len(row.vals) : IsNaN(row.vals[i])
AllNaN(row) == \A i \in 1..Len(row.vals) : IsNaN(row.vals[i])
\* dropna(how='all') in place of the default how='any'
KeepRowHowAll(row) == ~AllNaN(row)
KeepRow(row) == ~HasNaN(row)

\* line 50: dropna() drops every row with at least one NaN
DropNa(rows) == SelectSeq(rows, KeepRow)

\* lines 49-52
Clean ==
    /\ pc = "coerced"
    /\ initial_count' = Len(data)
    /\ data' = DropNa(data)
    /\ final_count' = Len(DropNa(data))
    /\ out' = Append(out, Msg("cleaning", Len(data), Len(DropNa(data))))
    /\ pc' = "cleaned"
    /\ UNCHANGED <<fileExists, sheet, fs, handles, df, course_names, stats>>

Column(rows, i) == [r \in 1..Len(rows) |-> rows[r].vals[i]]
NotNaN(v) == ~IsNaN(v)
NonNull(col) == SelectSeq(col, NotNaN)

RECURSIVE FSum(_)
FSum(col) == IF Len(col) = 0 THEN Float(0) ELSE FAdd(FSum(Tail(col)), Head(col))

\* the mean taken over the rows before cleaning
MeanOverInitialCount(col) == FDivInt(FSum(NonNull(col)), initial_count)

\* Series.mean(): the sum of the non-null values over their number, NaN
\* when there is none
Mean(col) == FDivInt(FSum(NonNull(col)), Len(NonNull(col)))

\* Series.count(): the number of non-null values
Count(col) == Len(NonNull(col))

\* lines 55-58: one row per column of data, labelled by the column's name
Stats(rows, names) ==
    [i \in 1..Len(names) |->
        [Course |-> names[i],
         AverageRating |-> Mean(Column(rows, i)),
         Count |-> Count(Column(rows, i))]]

Aggregate ==
    /\ pc = "cleaned"
    /\ stats' = Stats(data, course_names)
    /\ pc' = "aggregated"
    /\ UNCHANGED <<fileExists, sheet, fs, handles, out, df, course_names, data,
                   initial_count, final_count>>

\* The order sort_values(by=['Average Rating', 'Count'],
\* ascending=[True, False]) sorts by: NaN averages last, then the lower
\* average, then the higher count.
AvgBefore(a, b) == ~IsNaN(a) /\ (IsNaN(b) \/ FLt(a, b))
AvgSame(a, b) == (IsNaN(a) /\ IsNaN(b)) \/ FEq(a, b)
\* ascending=[False, False]
RowBeforeDescending(a, b) ==
    \/ AvgBefore(b.AverageRating, a.AverageRating)
    \/ AvgSame(a.AverageRating, b.AverageRating) /\ a.Count > b.Count
RowBefore(a, b) ==
    \/ AvgBefore(a.AverageRating, b.AverageRating)
    \/ AvgSame(a.AverageRating, b.AverageRating) /\ a.Count > b.Count

\* a sort that puts a row before the rows it ties with
InsertRowBeforeTies(sorted, e) ==
    LET firstAfter ==
            IF \E i \in 1..Len(sorted) : ~RowBefore(sorted[i], e)
            THEN CHOOSE i \in 1..Len(sorted) :
                    /\ ~RowBefore(sorted[i], e)
                    /\ \A k \in 1..(i - 1) : RowBefore(sorted[k], e)
            ELSE Len(sorted) + 1
    IN SubSeq(sorted, 1, firstAfter - 1) \o <<e>> \o SubSeq(sorted, firstAfter, Len(sorted))

\* e goes before the first row it is strictly before: rows that compare
\* equal keep the order they came in (the sort is a stable lexsort)
InsertRow(sorted, e) ==
    LET firstAfter ==
            IF \E i \in 1..Len(sorted) : RowBefore(e, sorted[i])
            THEN CHOOSE i \in 1..Len(sorted) :
                    /\ RowBefore(e, sorted[i])
                    /\ \A k \in 1..(i - 1) : ~RowBefore(e, sorted[k])
            ELSE Len(sorted) + 1
    IN SubSeq(sorted, 1, firstAfter - 1) \o <<e>> \o SubSeq(sorted, firstAfter, Len(sorted))

RECURSIVE SortValues(_)
SortValues(rows) ==
    IF Len(rows) = 0 THEN <<>>
    ELSE InsertRow(SortValues(SubSeq(rows, 1, Len(rows) - 1)), rows[Len(rows)])

\* lines 64-67
Sort ==
    /\ pc = "aggregated"
    /\ stats' = SortValues(stats)
    /\ out' = Append(out, Msg("ranking", 0, 0))
    /\ pc' = "ranked"
    /\ UNCHANGED <<fileExists, sheet, fs, handles, df, course_names, data,
                   initial_count, final_count>>

\* lines 70-74: the index labels become the column Course (they are the field
\* Course of a row from the start here), and results/ is created if absent
MakeDirs ==
    /\ pc = "ranked"
    /\ fs' = [fs EXCEPT !.dir = TRUE]
    /\ pc' = "dir"
    /\ UNCHANGED <<fileExists, sheet, handles, out, df, course_names, data,
                   initial_count, final_count, stats>>

CsvHeader == <<"Course", "Average Rating", "Count">>

\* stats.to_csv(path, index=False): the header, then the rows in frame order
ToCsv(rows) == [state |-> "written", header |-> CsvHeader, rows |-> rows]

\* lines 76-78; to_csv opens the file and closes it before it returns
SaveCsv ==
    /\ pc = "dir"
    /\ fs' = [fs EXCEPT !.csv = ToCsv(stats)]
    /\ out' = Append(out, Msg("saved csv", 0, 0))
    /\ pc' = "csv"
    /\ UNCHANGED <<fileExists, sheet, handles, df, course_names, data,
                   initial_count, final_count, stats>>

Reverse(q) == [i \in 1..Len(q) |-> q[Len(q) + 1 - i]]

\* the table plotted as it is
PlotDataNotReversed(rows) == rows

\* line 86: stats.iloc[::-1]
PlotData(rows) == Reverse(rows)

\* line 88: barh(plot_data['Course'], plot_data['Average Rating']): one bar
\* per row, in the order of the rows
Bars(rows) == [i \in 1..Len(rows) |-> [y |-> rows[i].Course, width |-> rows[i].AverageRating]]

ChartTexts == <<"Average Rating (1 = Best, 8 = Worst)", "MAcc CORE Courses",
                "Course Ranking by Student Preference">>

\* lines 81-103, and the return of main().  savefig opens the file and
\* closes it before it returns.  Nothing closes xl: when main() returns the
\* workbook's handle is released only if the interpreter finalises the
\* object then, which the program does not control.
Plot ==
    /\ pc = "csv"
    /\ fs' = [fs EXCEPT !.png = [state |-> "written", header |-> ChartTexts,
                                 rows |-> Bars(PlotData(stats))]]
    /\ out' = Append(out, Msg("saved plot", 0, 0))
    /\ handles' \in {handles, handles \ {"xlsx"}}
    /\ pc' = "done"
    /\ UNCHANGED <<fileExists, sheet, df, course_names, data,
                   initial_count, final_count, stats>>

\* makedirs, to_csv or savefig raises (OSError): nothing in main() catches
\* it, and the frame it unwinds still holds xl
Fail ==
    /\ pc \in {"ranked", "dir", "csv"}
    /\ pc' = "raised"
    /\ UNCHANGED <<fileExists, sheet, fs, handles, out, df, course_names, data,
                   initial_count, final_count, stats>>

Next ==
    \/ LoadOk
    \/ LoadMissing
    \/ Parse
    \/ Label
    \/ SelectData
    \/ Coerce
    \/ Clean
    \/ Aggregate
    \/ Sort
    \/ MakeDirs
    \/ SaveCsv
    \/ Plot
    \/ Fail

Spec == Init /\ [][Next]_vars
SpecLabel == InitLabel /\ [][Next]_vars

(***************************************************************************)
(* What the properties are stated against: the sheet as it is on disk,     *)
(* read without the program's operators.                                   *)
(***************************************************************************)
Stage ==
    CASE pc \in {"start", "returned"} -> 0
      [] pc = "loaded" -> 1
      [] pc = "parsed" -> 2
      [] pc = "named" -> 3
      [] pc = "selected" -> 4
      [] pc = "coerced" -> 5
      [] pc = "cleaned" -> 6
      [] pc = "aggregated" -> 7
      [] pc \in {"ranked", "raised"} -> 8
      [] pc = "dir" -> 9
      [] pc = "csv" -> 10
      [] OTHER -> 11

Courses == 1..8

\* the body under the header row; SheetBody[1] is the metadata row
SheetBody == SubSeq(sheet, 3, Len(sheet))
SheetHeader(k) == sheet[2][11 + k]
SheetCell(r, k) == SheetBody[r][11 + k]
ParsesAsNumber(cell) == cell.kind = "num" \/ cell.kind = "numtext"
RowIsNumeric(r) == \A k \in Courses : ParsesAsNumber(SheetCell(r, k))
DataRowNos == 2..Len(SheetBody)
CleanRowNos == {r \in DataRowNos : RowIsNumeric(r)}

RECURSIVE CleanSumUpTo(_, _)
CleanSumUpTo(k, r) ==
    IF r < 2 THEN 0
    ELSE CleanSumUpTo(k, r - 1) + (IF RowIsNumeric(r) THEN SheetCell(r, k).val ELSE 0)
CleanSum(k) == CleanSumUpTo(k, Len(SheetBody))

AdjacentInOrder(a, b) ==
    \/ FLt(a.AverageRating, b.AverageRating)
    \/ FEq(a.AverageRating, b.AverageRating) /\ a.Count >= b.Count

CourseSeq(rows) == [i \in 1..Len(rows) |-> rows[i].Course]

(***************************************************************************)
(* C1, as stated: in every ranking table main() produces, each row and the *)
(* next satisfy a.avg < b.avg, or a.avg = b.avg and a.Count >= b.Count,    *)
(* also when no row survives cleaning.                                     *)
(***************************************************************************)
C1_SortedForEveryInput ==
    Stage >= 8 =>
        \A i \in 1..(Len(stats) - 1) : AdjacentInOrder(stats[i], stats[i + 1])

(***************************************************************************)
(* C1, amended: when at least one row survives cleaning, every average is  *)
(* a number and each row and the next satisfy a.avg < b.avg, or            *)
(* a.avg = b.avg and a.Count >= b.Count.  When none survives, every        *)
(* average is NaN, which compares with nothing.                            *)
(***************************************************************************)
C1_SortedWhenRowsSurvive ==
    Stage >= 8 =>
        /\ final_count > 0 =>
              /\ \A i \in 1..Len(stats) : ~IsNaN(stats[i].AverageRating)
              /\ \A i \in 1..(Len(stats) - 1) : AdjacentInOrder(stats[i], stats[i + 1])
        /\ final_count = 0 => \A i \in 1..Len(stats) : IsNaN(stats[i].AverageRating)

\* a table the sort had to reorder, with a strict step and a tie in it
C1_Witness ==
    /\ pc = "ranked"
    /\ final_count > 0
    /\ CourseSeq(stats) # course_names
    /\ \E i \in 1..(Len(stats) - 1) : FLt(stats[i].AverageRating, stats[i + 1].AverageRating)
    /\ \E i \in 1..(Len(stats) - 1) : FEq(stats[i].AverageRating, stats[i + 1].AverageRating)

(***************************************************************************)
(* C2: a body row other than row 0 is among the cleaned rows if and only   *)
(* if all 8 of its selected cells parse as numbers; a surviving row is     *)
(* there once, with the 8 parsed values.                                   *)
(***************************************************************************)
C2_RowCleaningAllOrNothing ==
    Stage >= 6 =>
        /\ \A r \in DataRowNos :
              RowIsNumeric(r) <=> \E i \in 1..Len(data) : data[i].idx = r - 1
        /\ \A i \in 1..Len(data) :
              /\ data[i].idx + 1 \in DataRowNos
              /\ \A j \in 1..Len(data) : data[j].idx = data[i].idx => j = i
              /\ \A k \in Courses :
                    data[i].vals[k] = Float(SheetCell(data[i].idx + 1, k).val)
        /\ final_count = Cardinality(CleanRowNos)

\* one row dropped although some of its cells are numbers, another kept
C2_Witness ==
    /\ pc = "cleaned"
    /\ \E r \in DataRowNos :
          /\ ~RowIsNumeric(r)
          /\ \E k \in Courses : ParsesAsNumber(SheetCell(r, k))
          /\ \A i \in 1..Len(data) : data[i].idx # r - 1
    /\ \E r \in DataRowNos :
          /\ \E k \in Courses : SheetCell(r, k).kind = "numtext"
          /\ \E i \in 1..Len(data) : data[i].idx = r - 1

\* the names the headers at positions 11-18 give, in column order
RECURSIVE DerivedNamesUpTo(_)
DerivedNamesUpTo(n) ==
    IF n = 0 THEN <<>> ELSE Append(DerivedNamesUpTo(n - 1), CourseName(SheetHeader(n)))
DerivedNames == DerivedNamesUpTo(8)

NamesDistinct(names) ==
    \A i, j \in 1..Len(names) : names[i] = names[j] => i = j

(***************************************************************************)
(* C3, as stated: the ranking table has exactly 8 rows whose Course values *)
(* are pairwise distinct and are the names derived from the headers at     *)
(* positions 11-18.                                                        *)
(***************************************************************************)
C3_EightDistinctCourses ==
    Stage >= 7 =>
        LET derived == DerivedNames IN
        /\ Len(stats) = 8
        /\ NamesDistinct(CourseSeq(stats))
        /\ {stats[i].Course : i \in 1..Len(stats)} = {derived[k] : k \in Courses}

(***************************************************************************)
(* C3, amended: the ranking table has exactly 8 rows, one per selected     *)
(* column: each derived name is the Course of as many rows as there are    *)
(* columns at positions 11-18 it is derived from.  The Course values are   *)
(* pairwise distinct exactly when the derived names are.                   *)
(***************************************************************************)
C3_EightRowsOnePerColumn ==
    Stage >= 7 =>
        LET derived == DerivedNames IN
        /\ Len(stats) = 8
        /\ \A i \in 1..Len(stats) :
              Cardinality({j \in 1..Len(stats) : stats[j].Course = stats[i].Course})
                 = Cardinality({k \in Courses : derived[k] = stats[i].Course})
        /\ \A k \in Courses : \E i \in 1..Len(stats) : stats[i].Course = derived[k]
        /\ NamesDistinct(CourseSeq(stats)) <=> NamesDistinct(derived)

\* a ranked table in which two columns carry the same derived name
C3_Witness ==
    /\ pc = "ranked"
    /\ Len(stats) = 8
    /\ ~NamesDistinct(CourseSeq(stats))
    /\ final_count > 0

(***************************************************************************)
(* C4: when the input file does not exist, main() never gets past the      *)
(* load: its one step prints the error and returns, and leaves results/,   *)
(* the CSV and the chart as they were, with no handle open.                *)
(***************************************************************************)
C4_MissingFileNoOutput ==
    /\ [](~fileExists => pc \in {"start", "returned"})
    /\ [][~fileExists =>
            /\ pc' = "returned"
            /\ fs' = fs
            /\ handles' = {}
            /\ out'[Len(out')].msg = "not found"
            /\ stats' = <<>> /\ df' = NoFrame]_vars

C4_Witness ==
    /\ ~fileExists
    /\ pc = "returned"
    /\ fs = FreshFs
    /\ Len(out) = 2

(***************************************************************************)
(* C5: row 0 of the parsed body never reaches coercion and every other     *)
(* body row does; whatever row 0 holds, each course's Count and Average    *)
(* Rating are those of the numeric rows among the others.                  *)
(***************************************************************************)
C5_MetadataRowSkipped ==
    /\ Stage >= 4 => \A i \in 1..Len(data) : data[i].idx # 0
    /\ pc \in {"selected", "coerced"} =>
          /\ Len(data) = Cardinality(DataRowNos)
          /\ \A i \in 1..Len(data) : data[i].idx = i
    /\ pc = "selected" =>
          \A i \in 1..Len(data) : \A k \in Courses : data[i].vals[k] = SheetCell(i + 1, k)
    /\ pc = "aggregated" =>
          \A k \in Courses :
              /\ stats[k].Count = Cardinality(CleanRowNos)
              /\ stats[k].Count > 0 =>
                    FEq(stats[k].AverageRating,
                        [nan |-> FALSE, num |-> CleanSum(k), den |-> Cardinality(CleanRowNos)])

\* a metadata row whose 8 cells are all numbers, over rows that are counted
C5_Witness ==
    /\ pc = "aggregated"
    /\ Len(SheetBody) >= 1
    /\ RowIsNumeric(1)
    /\ CleanRowNos # {}
    /\ stats[1].Count = Cardinality(CleanRowNos)

RECURSIVE DataSumUpTo(_, _)
DataSumUpTo(k, n) ==
    IF n = 0 THEN 0 ELSE DataSumUpTo(k, n - 1) + data[n].vals[k].num
DataSum(k) == DataSumUpTo(k, Len(data))

\* float times integer
FMulInt(a, n) == IF a.nan THEN NaN ELSE [nan |-> FALSE, num |-> a.num * n, den |-> a.den]

\* The end-to-end scenario: 10 data rows under the metadata row, rows 3 and
\* 7 with a non-numeric entry, the first course rated 1,2,1,2,... in the rest.
ScenarioRatings == <<1, 2, 9, 1, 2, 1, 9, 2, 1, 2>>
ScenarioFrame ==
    [columns |-> StyleHeaders("prefixed"),
     rows |-> <<[i \in 1..NumCols |-> Text]>>
              \o [j \in 1..10 |->
                    [i \in 1..NumCols |->
                        IF i - 1 = 11 THEN Num(ScenarioRatings[j])
                        ELSE IF i - 1 = 14 /\ j \in {3, 7} THEN Text
                        ELSE Num(1)]]]
ScenarioData == DropNa(ApplyToNumeric(ILoc(ScenarioFrame, SkipRows, target_cols_indices)))
ScenarioStats == Stats(ScenarioData, <<"A", "B", "C", "D", "E", "F", "G", "H">>)

(***************************************************************************)
(* C6, as stated: for each course, Count is the number of cleaned rows and *)
(* Average Rating * Count equals the sum of the course's cleaned values.   *)
(***************************************************************************)
C6_MeanTimesCountIsSum ==
    pc = "aggregated" =>
        \A k \in Courses :
            /\ stats[k].Count = Len(data)
            /\ FEq(FMulInt(stats[k].AverageRating, stats[k].Count), Float(DataSum(k)))

(***************************************************************************)
(* C6, amended: for each course, Count is the number of cleaned rows;      *)
(* when at least one row survives cleaning, Average Rating is the          *)
(* arithmetic mean of the course's cleaned values (Average Rating * Count  *)
(* equals their sum); when none survives, Average Rating is NaN.  The 10   *)
(* row scenario yields 8 cleaned rows, Average Rating 1.5 and Count 8.     *)
(***************************************************************************)
C6_MeanAndCount ==
    pc = "aggregated" =>
        /\ \A k \in Courses :
              /\ stats[k].Count = Len(data)
              /\ stats[k].Count = final_count
              /\ stats[k].Count > 0 =>
                    FEq(FMulInt(stats[k].AverageRating, stats[k].Count), Float(DataSum(k)))
              /\ stats[k].Count = 0 => IsNaN(stats[k].AverageRating)
        /\ Len(ScenarioData) = 8
        /\ ScenarioStats[1].Count = 8
        /\ FEq(ScenarioStats[1].AverageRating, [nan |-> FALSE, num |-> 3, den |-> 2])

\* rows were dropped, rows were kept, and a mean is above 1
C6_Witness ==
    /\ pc = "aggregated"
    /\ 0 < final_count
    /\ final_count < initial_count
    /\ \E k \in Courses : stats[k].AverageRating.num > stats[k].AverageRating.den

(***************************************************************************)
(* Header texts, read character by character.                              *)
(***************************************************************************)
SepAt(h, j) ==
    /\ j + 2 <= Len(h)
    /\ h[j] = " "
    /\ h[j + 1] = "-"
    /\ h[j + 2] = " "
HasSep(h) == \E j \in 1..Len(h) : SepAt(h, j)
LastSepAt(h) == CHOOSE j \in 1..Len(h) : SepAt(h, j) /\ \A k \in (j + 1)..Len(h) : ~SepAt(h, k)
AfterLastSep(h) == SubSeq(h, LastSepAt(h) + 3, Len(h))
SepsOverlap(h) == \E j \in 1..Len(h) : SepAt(h, j) /\ SepAt(h, j + 2)

Taxation == <<"T", "a", "x", "a", "t", "i", "o", "n">>
Ethics == <<"E", "t", "h", "i", "c", "s">>

(***************************************************************************)
(* C7, as stated: the derived CourseName is the text after the last        *)
(* occurrence of " - " in the header, and the whole header when it has     *)
(* none.                                                                   *)
(***************************************************************************)
C7_NameAfterLastOccurrence ==
    Stage >= 3 =>
        \A k \in Courses :
            course_names[k] =
                IF HasSep(SheetHeader(k)) THEN AfterLastSep(SheetHeader(k)) ELSE SheetHeader(k)

(***************************************************************************)
(* C7, amended: the derived CourseName is the whole header when the header *)
(* has no " - "; otherwise it is an end of the header that follows an      *)
(* occurrence of " - " and has no " - " in it, and it is the text after    *)
(* the last occurrence whenever no two occurrences share a blank.          *)
(* "Q35_1 - Taxation" yields "Taxation" and "Ethics" yields "Ethics".      *)
(***************************************************************************)
C7_NameIsLastSegment ==
    Stage >= 3 =>
        /\ \A k \in Courses :
              LET h == SheetHeader(k)
                  n == course_names[k]
              IN /\ ~HasSep(h) => n = h
                 /\ HasSep(h) =>
                       /\ ~HasSep(n)
                       /\ \E j \in 1..Len(h) : SepAt(h, j) /\ n = SubSeq(h, j + 3, Len(h))
                 /\ HasSep(h) /\ ~SepsOverlap(h) => n = AfterLastSep(h)
        /\ pc = "named" =>
              /\ CourseName(<<"Q", "3", "5", "_", "1", " ", "-", " ">> \o Taxation) = Taxation
              /\ CourseName(Ethics) = Ethics

\* a header with two occurrences that share a blank: the name is not the
\* text after the last one
C7_Witness ==
    /\ pc = "named"
    /\ HasSep(SheetHeader(1))
    /\ SepsOverlap(SheetHeader(1))
    /\ course_names[1] # AfterLastSep(SheetHeader(1))
    /\ HasSep(SheetHeader(2))
    /\ course_names[2] = AfterLastSep(SheetHeader(2))

(***************************************************************************)
(* C8: when main() is done the CSV holds the ranking table's 8 rows in     *)
(* rank order, and the bars given to the chart are those rows in reverse:  *)
(* bar i is CSV row 9 - i, with its Course and its Average Rating.         *)
(***************************************************************************)
C8_CsvRankedBarsReversed ==
    pc = "done" =>
        /\ fs.dir
        /\ fs.csv.state = "written"
        /\ fs.csv.header = <<"Course", "Average Rating", "Count">>
        /\ fs.csv.rows = stats
        /\ Len(fs.csv.rows) = 8
        /\ \A i \in 1..7 :
              ~FLt(fs.csv.rows[i + 1].AverageRating, fs.csv.rows[i].AverageRating)
        /\ fs.png.state = "written"
        /\ Len(fs.png.rows) = 8
        /\ \A i \in 1..8 :
              /\ fs.png.rows[i].y = fs.csv.rows[9 - i].Course
              /\ fs.png.rows[i].width = fs.csv.rows[9 - i].AverageRating

\* the best and the worst course differ, so the reversal shows
C8_Witness ==
    /\ pc = "done"
    /\ FLt(fs.csv.rows[1].AverageRating, fs.csv.rows[8].AverageRating)
    /\ fs.png.rows[8].y = fs.csv.rows[1].Course
    /\ fs.png.rows[8].y # fs.png.rows[1].y

(***************************************************************************)
(* C9: whenever main() has terminated (done, returned early, or left by a  *)
(* failure), no file handle it opened is still open.                       *)
(***************************************************************************)
C9_HandlesReleasedOnExit ==
    pc \in {"done", "returned", "raised"} => handles = {}

\* the columns in column order, each with the mean of its clean rows
RECURSIVE ColumnMeansUpTo(_)
ColumnMeansUpTo(n) ==
    IF n = 0 THEN <<>>
    ELSE Append(ColumnMeansUpTo(n - 1),
                [Course |-> CourseName(SheetHeader(n)),
                 AverageRating |-> [nan |-> FALSE, num |-> CleanSum(n),
                                    den |-> Cardinality(CleanRowNos)]])

\* the Course values of the rows whose average equals v, in row order
RECURSIVE TiedUpTo(_, _, _)
TiedUpTo(rows, v, n) ==
    IF n = 0 THEN <<>>
    ELSE IF FEq(rows[n].AverageRating, v)
         THEN Append(TiedUpTo(rows, v, n - 1), rows[n].Course)
         ELSE TiedUpTo(rows, v, n - 1)

(***************************************************************************)
(* C10: every row of the ranking table carries the same Count, the number  *)
(* of rows that survived cleaning (final_count), and the courses with one  *)
(* and the same Average Rating stand in the order of their columns.        *)
(***************************************************************************)
C10_SameCountTiesInColumnOrder ==
    Stage >= 8 =>
        /\ \A i \in 1..Len(stats) : stats[i].Count = final_count
        /\ final_count = Cardinality(CleanRowNos)
        /\ final_count > 0 =>
              LET columns == ColumnMeansUpTo(8) IN
              \A i \in 1..Len(stats) :
                  TiedUpTo(stats, stats[i].AverageRating, Len(stats))
                     = TiedUpTo(columns, stats[i].AverageRating, 8)

\* a table the sort reordered, with courses that tie
C10_Witness ==
    /\ pc = "ranked"
    /\ final_count > 0
    /\ CourseSeq(stats) # course_names
    /\ \E i \in 1..7 :
          /\ FEq(stats[i].AverageRating, stats[i + 1].AverageRating)
          /\ stats[i].Course # stats[i + 1].Course
          /\ stats[i].Count = stats[i + 1].Count

====
